---- MODULE Spec2Model ----
(***************************************************************************)
(* The outline editor of TextEditor/: the ListManager (ordered items with  *)
(* a level and a derived number) and the Editor's modal key dispatch.      *)
(* Characters and keys are their integer codes, as curses delivers them;   *)
(* a string is a sequence of character codes.                              *)
(***************************************************************************)
EXTENDS Integers, Sequences, FiniteSets, TLC

\* ------------------------------------------------------------------ bounds
\* Keystrokes read by the main loop in one explored session.
MaxKeys == 4
\* Items of a persisted document a session may start from.
MaxFileItems == 2
\* Length of the level sequences renumber_items is applied to on its own.
MaxSeqLen == 4
\* Items a ListManager driven on its own may hold.
MaxItems == 3
\* add_item calls made in a row on a new manager.
MaxAdds == 3

\* --------------------------------------------------------- program constants
MaxLevel == 10
NumCounters == 11
IndentWidth == 4
ESC == 27
ENTER == 10
TAB == 9
DEL == 127
BS == 8
PrintableLow == 32
PrintableHigh == 126
\* curses key codes (curses.KEY_*)
KEY_DOWN == 258
KEY_UP == 259
KEY_LEFT == 260
KEY_RIGHT == 261
KEY_BACKSPACE == 263
KEY_F1 == 265
KEY_DC == 330
KEY_BTAB == 353
\* ord(...) of the NORMAL-mode command characters
Key_i == 105
Key_o == 111
Key_O == 79
Key_j == 106
Key_k == 107
Key_d == 100
Key_gt == 62
Key_lt == 60
Key_s == 115
Key_q == 113
Key_a == 97
\* characters of the persisted format
NL == 10
SP == 32
DOT == 46
Digit0 == 48

NORMAL == "NORMAL"
INSERT == "INSERT"

\* ------------------------------------------------------- Python sequences
Min(a, b) == IF a < b THEN a ELSE b
Max(a, b) == IF a > b THEN a ELSE b

\* s[:n] and s[n:] for n >= 0 (a slice bound past the end is clamped)
SliceTo(s, n) == SubSeq(s, 1, Min(n, Len(s)))
SliceFrom(s, n) == SubSeq(s, Min(n, Len(s)) + 1, Len(s))

\* list.insert(i, x): a negative i counts from the end, both ends are clamped
ListInsert(s, i, x) ==
    LET j == IF i < 0 THEN Max(i + Len(s), 0) ELSE Min(i, Len(s))
    IN  SliceTo(s, j) \o <<x>> \o SliceFrom(s, j)

\* del s[i] for 0 <= i < len(s)
ListDelete(s, i) == SliceTo(s, i) \o SliceFrom(s, i + 1)

\* "sep".join(parts)
RECURSIVE Join(_, _)
Join(parts, sep) ==
    IF Len(parts) = 0 THEN <<>>
    ELSE IF Len(parts) = 1 THEN parts[1]
    ELSE parts[1] \o sep \o Join(Tail(parts), sep)

\* str(n) for n >= 0, in decimal
RECURSIVE Str(_)
Str(n) == IF n < 10 THEN <<Digit0 + n>> ELSE Str(n \div 10) \o <<Digit0 + (n % 10)>>

\* ------------------------------------------------------------- ListItem
\* number is <<>> until renumber_items assigns it (the attribute is not set
\* by the constructor).
ListItem(content, level) == [content |-> content, level |-> level, number |-> <<>>]

\* ----------------------------------------------------------- ListManager
\* A manager is [items, current_position]; items are 0-indexed in the code,
\* so the item at Python index i is items[i + 1].
NewManager == [items |-> <<>>, current_position |-> 0]

\* variant: the counters of the deeper levels are not reset
StepCountersNoReset(counters, level) ==
    [i \in 0..(NumCounters - 1) |-> IF i = level THEN counters[i] + 1 ELSE counters[i]]

\* One pass of the loop body of renumber_items for an item of level `level`:
\* the counters after "reset deeper levels, increment own level".
StepCounters(counters, level) ==
    [i \in 0..(NumCounters - 1) |->
        IF i > level THEN 0
        ELSE IF i = level THEN counters[i] + 1
        ELSE counters[i]]

\* variant: the number is the counter of the item's own level alone
NumberOfOwnLevel(counters, level) == Str(counters[level])

NumberOf(counters, level) ==
    Join([i \in 1..(level + 1) |-> Str(counters[i - 1])], <<DOT>>)

RECURSIVE RenumberFrom(_, _, _)
RenumberFrom(its, k, counters) ==
    IF k > Len(its) THEN its
    ELSE LET c == StepCounters(counters, its[k].level)
         IN  RenumberFrom([its EXCEPT ![k].number = NumberOf(c, its[k].level)], k + 1, c)

renumber_items(its) == RenumberFrom(its, 1, [i \in 0..(NumCounters - 1) |-> 0])

get_recommended_level(lm) ==
    IF Len(lm.items) = 0 \/ lm.current_position = 0 THEN 0
    ELSE lm.items[lm.current_position].level

\* variant: the new item is placed but the list is not renumbered
add_item_unnumbered(lm, content, level) ==
    LET new_item == ListItem(content, level)
    IN  [items |-> IF lm.current_position < Len(lm.items)
                   THEN ListInsert(lm.items, lm.current_position, new_item)
                   ELSE Append(lm.items, new_item),
         current_position |-> lm.current_position + 1]

\* variant: current_position is not advanced
add_item_in_place(lm, content, level) ==
    LET new_item == ListItem(content, level)
        placed == IF lm.current_position < Len(lm.items)
                  THEN ListInsert(lm.items, lm.current_position, new_item)
                  ELSE Append(lm.items, new_item)
    IN  [items |-> renumber_items(placed),
         current_position |-> lm.current_position]

\* add_item with an explicit level
add_item(lm, content, level) ==
    LET new_item == ListItem(content, level)
        placed == IF lm.current_position < Len(lm.items)
                  THEN ListInsert(lm.items, lm.current_position, new_item)
                  ELSE Append(lm.items, new_item)
    IN  [items |-> renumber_items(placed),
         current_position |-> lm.current_position + 1]

\* add_item with level=None
add_item_default(lm, content) == add_item(lm, content, get_recommended_level(lm))

delete_item(lm, index) ==
    IF 0 <= index /\ index < Len(lm.items)
    THEN LET rest == ListDelete(lm.items, index)
         IN  [items |-> renumber_items(rest),
              current_position |-> Min(lm.current_position, Len(rest) - 1)]
    ELSE lm

indent_item(lm, index) ==
    IF 0 <= index /\ index < Len(lm.items)
    THEN [lm EXCEPT !.items =
            renumber_items([lm.items EXCEPT ![index + 1].level = Min(@ + 1, MaxLevel)])]
    ELSE lm

\* variant: the level is lowered without the floor at 0
outdent_item_unclamped(lm, index) ==
    IF 0 <= index /\ index < Len(lm.items)
    THEN [lm EXCEPT !.items =
            renumber_items([lm.items EXCEPT ![index + 1].level = @ - 1])]
    ELSE lm

outdent_item(lm, index) ==
    IF 0 <= index /\ index < Len(lm.items)
    THEN [lm EXCEPT !.items =
            renumber_items([lm.items EXCEPT ![index + 1].level = Max(@ - 1, 0)])]
    ELSE lm

\* ------------------------------------------------------------ persistence
\* A file is [exists, text]; text is the sequence of characters written.
Whitespace == {SP, NL, TAB}

Spaces(n) == [i \in 1..n |-> SP]

\* the line save_to_file writes for one item
SaveLine(item) ==
    Spaces(IndentWidth * item.level) \o item.number \o <<SP>> \o item.content \o <<NL>>

RECURSIVE SaveFrom(_, _)
SaveFrom(its, k) ==
    IF k > Len(its) THEN <<>> ELSE SaveLine(its[k]) \o SaveFrom(its, k + 1)

save_to_file(its) == [exists |-> TRUE, text |-> SaveFrom(its, 1)]

\* "for line in f": the physical lines, each with its line break
RECURSIVE FileLines(_)
FileLines(text) ==
    IF Len(text) = 0 THEN <<>>
    ELSE IF \E k \in 1..Len(text) : text[k] = NL
    THEN LET k == CHOOSE k \in 1..Len(text) :
                      text[k] = NL /\ \A j \in 1..(k - 1) : text[j] # NL
         IN  <<SubSeq(text, 1, k)>> \o FileLines(SubSeq(text, k + 1, Len(text)))
    ELSE <<text>>

RECURSIVE LStrip(_)
LStrip(s) == IF Len(s) > 0 /\ s[1] \in Whitespace THEN LStrip(Tail(s)) ELSE s

RECURSIVE RStrip(_)
RStrip(s) ==
    IF Len(s) > 0 /\ s[Len(s)] \in Whitespace THEN RStrip(SubSeq(s, 1, Len(s) - 1)) ELSE s

Strip(s) == LStrip(RStrip(s))

\* the first whitespace-delimited token of a string that starts with none
RECURSIVE FirstToken(_)
FirstToken(s) ==
    IF Len(s) = 0 \/ s[1] \in Whitespace THEN <<>> ELSE <<s[1]>> \o FirstToken(Tail(s))

\* str.split(): the whitespace-delimited tokens
RECURSIVE Split(_)
Split(s) ==
    LET t == LStrip(s)
    IN  IF Len(t) = 0 THEN <<>>
        ELSE LET tok == FirstToken(t)
             IN  <<tok>> \o Split(SubSeq(t, Len(tok) + 1, Len(t)))

\* the level and the content load_from_file reads from one non-blank line
LineLevel(line) == (Len(line) - Len(LStrip(line))) \div IndentWidth
LineContent(line) == Join(Tail(Split(Strip(line))), <<SP>>)

\* The loop of load_from_file over the lines from k on.  add_item raises
\* IndexError in renumber_items (counters[level]) for a level past the last
\* counter; the item is in the list by then and the load stops there.
RECURSIVE LoadFrom(_, _, _)
LoadFrom(lm, lines, k) ==
    IF k > Len(lines) THEN [lm |-> lm, raised |-> FALSE]
    ELSE IF Len(Strip(lines[k])) = 0 THEN LoadFrom(lm, lines, k + 1)
    ELSE IF LineLevel(lines[k]) >= NumCounters
    THEN [lm |-> [items |-> ListInsert(lm.items, Len(lm.items),
                                       ListItem(LineContent(lines[k]), LineLevel(lines[k]))),
                  current_position |-> lm.current_position + 1],
          raised |-> TRUE]
    ELSE LoadFrom(add_item(lm, LineContent(lines[k]), LineLevel(lines[k])), lines, k + 1)

load_from_file(file) ==
    IF file.exists THEN LoadFrom(NewManager, FileLines(file.text), 1)
    ELSE [lm |-> NewManager, raised |-> FALSE]

\* ----------------------------------------------------------------- Editor
\* A session s is the Editor's fields with its ListManager's and the file:
\* [items, current_position, mode, current_line, cursor_x, enter_count, file].
\* current_line and cursor_x are 0-based as in the code.
ManagerOf(s) == [items |-> s.items, current_position |-> s.current_position]

WithManager(s, lm) ==
    [s EXCEPT !.items = lm.items, !.current_position = lm.current_position]

CurrentItem(s) == s.items[s.current_line + 1]

\* content[:x] + mid + content[y:]
Spliced(content, x, mid, y) == SliceTo(content, x) \o mid \o SliceFrom(content, y)

\* ---- handle_normal_mode, branch by branch
normal_insert(s) ==
    LET t == IF Len(s.items) = 0
             THEN WithManager(s, add_item_default(ManagerOf(s), <<>>))
             ELSE s
    IN  [t EXCEPT !.mode = INSERT, !.cursor_x = Len(CurrentItem(t).content)]

normal_open_below(s) ==
    LET lm == add_item_default([ManagerOf(s) EXCEPT !.current_position = s.current_line + 1],
                               <<>>)
    IN  [WithManager(s, lm) EXCEPT
            !.current_line = s.current_line + 1, !.mode = INSERT, !.cursor_x = 0]

normal_open_above(s) ==
    LET lm == add_item_default([ManagerOf(s) EXCEPT !.current_position = s.current_line],
                               <<>>)
    IN  [WithManager(s, lm) EXCEPT !.mode = INSERT, !.cursor_x = 0]

normal_down(s) == [s EXCEPT !.current_line = Min(Len(s.items) - 1, s.current_line + 1)]

normal_up(s) == [s EXCEPT !.current_line = Max(0, s.current_line - 1)]

\* variant: the last remaining item is deleted too
normal_dd_unguarded(s) ==
    LET lm == delete_item(ManagerOf(s), s.current_line)
    IN  [WithManager(s, lm) EXCEPT !.current_line = Min(s.current_line, Len(lm.items) - 1)]

\* variant: current_line is not clamped after the deletion
normal_dd_unclamped(s) ==
    IF Len(s.items) > 1
    THEN WithManager(s, delete_item(ManagerOf(s), s.current_line))
    ELSE s

normal_dd(s) ==
    IF Len(s.items) > 1
    THEN LET lm == delete_item(ManagerOf(s), s.current_line)
         IN  [WithManager(s, lm) EXCEPT
                 !.current_line = Min(s.current_line, Len(lm.items) - 1)]
    ELSE s

normal_indent(s) == WithManager(s, indent_item(ManagerOf(s), s.current_line))

normal_outdent(s) == WithManager(s, outdent_item(ManagerOf(s), s.current_line))

normal_save(s) == [s EXCEPT !.file = save_to_file(s.items)]

\* variant: a second key other than 'd' is handled as a command of its own
handle_normal_mode_second_key(s, ch, ch2) ==
    LET k == IF ch = Key_d /\ ch2 # Key_d THEN ch2 ELSE ch
    IN  IF k = Key_i THEN normal_insert(s)
        ELSE IF Len(s.items) = 0 THEN s
        ELSE IF k = Key_o THEN normal_open_below(s)
        ELSE IF k = Key_O THEN normal_open_above(s)
        ELSE IF k = Key_j \/ k = KEY_DOWN THEN normal_down(s)
        ELSE IF k = Key_k \/ k = KEY_UP THEN normal_up(s)
        ELSE IF k = Key_d /\ ch2 = Key_d THEN normal_dd(s)
        ELSE IF k = Key_gt THEN normal_indent(s)
        ELSE IF k = Key_lt THEN normal_outdent(s)
        ELSE IF k = Key_s THEN normal_save(s)
        ELSE s

\* ch2 is the key the nested getch of the 'd' branch returns, read only there
handle_normal_mode(s, ch, ch2) ==
    IF ch = Key_i THEN normal_insert(s)
    ELSE IF Len(s.items) = 0 THEN s
    ELSE IF ch = Key_o THEN normal_open_below(s)
    ELSE IF ch = Key_O THEN normal_open_above(s)
    ELSE IF ch = Key_j \/ ch = KEY_DOWN THEN normal_down(s)
    ELSE IF ch = Key_k \/ ch = KEY_UP THEN normal_up(s)
    ELSE IF ch = Key_d /\ ch2 = Key_d THEN normal_dd(s)
    ELSE IF ch = Key_gt THEN normal_indent(s)
    ELSE IF ch = Key_lt THEN normal_outdent(s)
    ELSE IF ch = Key_s THEN normal_save(s)
    ELSE s

\* handle_normal_mode returns False
normal_quits(s, ch) == ch = Key_q /\ Len(s.items) > 0

\* the keys one call of handle_normal_mode takes from getch
normal_reads(s, ch, ch2) ==
    IF ch = Key_d /\ Len(s.items) > 0 THEN <<ch, ch2>> ELSE <<ch>>

\* ---- handle_insert_mode, branch by branch
SetContent(s, content) == [s EXCEPT !.items[s.current_line + 1].content = content]

insert_empty(s) ==
    [WithManager(s, add_item_default(ManagerOf(s), <<>>)) EXCEPT !.current_line = 0]

insert_escape(s) == [s EXCEPT !.mode = NORMAL, !.enter_count = 0]

\* variant: the new item is created at the top level
insert_double_enter_top_level(s) ==
    LET lm == add_item([ManagerOf(s) EXCEPT !.current_position = s.current_line + 1],
                       <<>>, 0)
    IN  [WithManager(s, lm) EXCEPT
            !.current_line = s.current_line + 1, !.enter_count = 0]

\* the second Enter: a new item after the current one, at its level
insert_double_enter(s) ==
    LET lm == add_item([ManagerOf(s) EXCEPT !.current_position = s.current_line + 1],
                       <<>>, CurrentItem(s).level)
    IN  [WithManager(s, lm) EXCEPT
            !.current_line = s.current_line + 1, !.enter_count = 0]

\* a first Enter: a line break at the cursor
insert_line_break(s) ==
    [SetContent(s, Spliced(CurrentItem(s).content, s.cursor_x, <<NL>>, s.cursor_x))
        EXCEPT !.cursor_x = s.cursor_x + 1]

insert_enter(s) ==
    LET t == [s EXCEPT !.enter_count = s.enter_count + 1]
    IN  IF t.enter_count = 2 THEN insert_double_enter(t) ELSE insert_line_break(t)

insert_tab(s) ==
    LET t == [s EXCEPT !.enter_count = 0]
    IN  WithManager(t, indent_item(ManagerOf(t), t.current_line))

insert_btab(s) ==
    LET t == [s EXCEPT !.enter_count = 0]
    IN  WithManager(t, outdent_item(ManagerOf(t), t.current_line))

backspace_outdent(s) == WithManager(s, outdent_item(ManagerOf(s), s.current_line))

\* variant: the previous content is appended to the current one
backspace_merge_reversed(s) ==
    LET prev_content_length == Len(s.items[s.current_line].content)
        joined == [s EXCEPT !.items[s.current_line].content =
                                CurrentItem(s).content \o @]
        lm == delete_item(ManagerOf(joined), s.current_line)
    IN  [WithManager(joined, lm) EXCEPT
            !.current_line = s.current_line - 1, !.cursor_x = prev_content_length]

backspace_merge(s) ==
    LET prev_content_length == Len(s.items[s.current_line].content)
        joined == [s EXCEPT !.items[s.current_line].content =
                                @ \o CurrentItem(s).content]
        lm == delete_item(ManagerOf(joined), s.current_line)
    IN  [WithManager(joined, lm) EXCEPT
            !.current_line = s.current_line - 1, !.cursor_x = prev_content_length]

backspace_char(s) ==
    [SetContent(s, Spliced(CurrentItem(s).content, s.cursor_x - 1, <<>>, s.cursor_x))
        EXCEPT !.cursor_x = s.cursor_x - 1]

\* variant: the merge is tried before the outdent
insert_backspace_merge_first(s) ==
    LET t == [s EXCEPT !.enter_count = 0]
    IN  IF t.cursor_x = 0 /\ t.current_line > 0 THEN backspace_merge(t)
        ELSE IF CurrentItem(t).level > 0 /\ t.cursor_x = 0 THEN backspace_outdent(t)
        ELSE IF t.cursor_x > 0 THEN backspace_char(t)
        ELSE t

insert_backspace(s) ==
    LET t == [s EXCEPT !.enter_count = 0]
    IN  IF CurrentItem(t).level > 0 /\ t.cursor_x = 0 THEN backspace_outdent(t)
        ELSE IF t.cursor_x = 0 /\ t.current_line > 0 THEN backspace_merge(t)
        ELSE IF t.cursor_x > 0 THEN backspace_char(t)
        ELSE t

insert_delete(s) ==
    LET t == [s EXCEPT !.enter_count = 0]
    IN  IF t.cursor_x < Len(CurrentItem(t).content)
        THEN SetContent(t, Spliced(CurrentItem(t).content, t.cursor_x, <<>>, t.cursor_x + 1))
        ELSE t

insert_left(s) == [s EXCEPT !.enter_count = 0, !.cursor_x = Max(0, s.cursor_x - 1)]

insert_right(s) ==
    [s EXCEPT !.enter_count = 0,
              !.cursor_x = Min(Len(CurrentItem(s).content), s.cursor_x + 1)]

insert_up(s) ==
    LET t == [s EXCEPT !.enter_count = 0, !.current_line = s.current_line - 1]
    IN  [t EXCEPT !.cursor_x = Min(s.cursor_x, Len(CurrentItem(t).content))]

insert_down(s) ==
    LET t == [s EXCEPT !.enter_count = 0, !.current_line = s.current_line + 1]
    IN  [t EXCEPT !.cursor_x = Min(s.cursor_x, Len(CurrentItem(t).content))]

insert_printable(s, ch) ==
    [SetContent(s, Spliced(CurrentItem(s).content, s.cursor_x, <<ch>>, s.cursor_x))
        EXCEPT !.enter_count = 0, !.cursor_x = s.cursor_x + 1]

handle_insert_mode(s, ch) ==
    IF Len(s.items) = 0 THEN insert_empty(s)
    ELSE IF ch = ESC THEN insert_escape(s)
    ELSE IF ch = ENTER THEN insert_enter(s)
    ELSE IF ch = TAB THEN insert_tab(s)
    ELSE IF ch = KEY_BTAB THEN insert_btab(s)
    ELSE IF ch \in {KEY_BACKSPACE, DEL, BS} THEN insert_backspace(s)
    ELSE IF ch = KEY_DC THEN insert_delete(s)
    ELSE IF ch = KEY_LEFT THEN insert_left(s)
    ELSE IF ch = KEY_RIGHT THEN insert_right(s)
    ELSE IF ch = KEY_UP /\ s.current_line > 0 THEN insert_up(s)
    ELSE IF ch = KEY_DOWN /\ s.current_line < Len(s.items) - 1 THEN insert_down(s)
    ELSE IF PrintableLow <= ch /\ ch <= PrintableHigh THEN insert_printable(s, ch)
    ELSE s

\* ---- run: one iteration of the main loop on the key ch
\* The handler of the mode the iteration starts in, then (NORMAL 's') the
\* second save, then the renumber pass that ends every iteration.
run_handle(s, ch, ch2) ==
    IF s.mode = NORMAL
    THEN LET t == handle_normal_mode(s, ch, ch2)
         IN  IF ch = Key_s THEN [t EXCEPT !.file = save_to_file(t.items)] ELSE t
    ELSE handle_insert_mode(s, ch)

\* variant: 'q' ends the loop in either mode
run_quits_any_mode(s, ch) == normal_quits(s, ch)

run_quits(s, ch) == s.mode = NORMAL /\ normal_quits(s, ch)

run_iteration(s, ch, ch2) ==
    IF run_quits(s, ch) THEN run_handle(s, ch, ch2)
    ELSE [run_handle(s, ch, ch2) EXCEPT !.items = renumber_items(@)]

run_reads(s, ch, ch2) ==
    IF s.mode = NORMAL THEN normal_reads(s, ch, ch2) ELSE <<ch>>

\* ------------------------------------------------------------------ state
VARIABLES
    items,              \* list_manager.items
    current_position,   \* list_manager.current_position
    mode,               \* Editor.mode
    current_line,       \* Editor.current_line
    cursor_x,           \* Editor.cursor_x
    enter_count,        \* Editor.enter_count
    file,               \* the file named Editor.filename
    running,            \* the main loop has not left through break
    keys,               \* the keys getch returned in the last iteration
    nkeys,              \* iterations of the main loop so far
    raised,             \* an exception has left the last operation
    calls               \* the add_item calls made on the manager, in order

vars == <<items, current_position, mode, current_line, cursor_x, enter_count,
          file, running, keys, nkeys, raised, calls>>

Session ==
    [items |-> items, current_position |-> current_position, mode |-> mode,
     current_line |-> current_line, cursor_x |-> cursor_x,
     enter_count |-> enter_count, file |-> file]

\* ---- session start: Editor.__init__ and the head of Editor.run
NoFile == [exists |-> FALSE, text |-> <<>>]

StartContents == {<<Key_a>>}
StartLevels == {0, 1}
StartDocs ==
    UNION {[1..n -> {ListItem(c, l) : c \in StartContents, l \in StartLevels}] :
           n \in 0..MaxFileItems}

\* the files an earlier session can have saved, and no file at all
StartFiles == {save_to_file(renumber_items(d)) : d \in StartDocs} \cup {NoFile}

\* Editor.__init__: a new manager gets its first item, the mode is INSERT
editor_init(f) ==
    [items |-> <<>>, current_position |-> 0, mode |-> NORMAL, current_line |-> 0,
     cursor_x |-> 0, enter_count |-> 0, file |-> f]

editor_new(f) ==
    LET s == editor_init(f)
    IN  IF Len(s.items) = 0
        THEN [WithManager(s, add_item_default(ManagerOf(s), <<>>)) EXCEPT
                 !.mode = INSERT, !.cursor_x = 0]
        ELSE s

\* Editor.run before its loop: load the file, or add an item when there is none
run_start(s) ==
    IF s.file.exists
    THEN WithManager(s, load_from_file(s.file).lm)
    ELSE [WithManager(s, add_item_default(ManagerOf(s), <<>>)) EXCEPT !.mode = INSERT]

\* the load at the head of Editor.run raises and the loop is never entered
run_start_raises(s) == s.file.exists /\ load_from_file(s.file).raised

Init ==
    \E f \in StartFiles :
        LET s == run_start(editor_new(f))
        IN  /\ items = s.items
            /\ current_position = s.current_position
            /\ mode = s.mode
            /\ current_line = s.current_line
            /\ cursor_x = s.cursor_x
            /\ enter_count = s.enter_count
            /\ file = s.file
            /\ running = ~run_start_raises(editor_new(f))
            /\ keys = <<>>
            /\ nkeys = 0
            /\ raised = run_start_raises(editor_new(f))
            /\ calls = <<>>

\* ---- one iteration of the main loop
Step(ch, ch2) ==
    /\ running
    /\ nkeys < MaxKeys
    /\ \E t \in {run_iteration(Session, ch, ch2)} :
           /\ items' = t.items
           /\ current_position' = t.current_position
           /\ mode' = t.mode
           /\ current_line' = t.current_line
           /\ cursor_x' = t.cursor_x
           /\ enter_count' = t.enter_count
           /\ file' = t.file
    /\ running' = ~run_quits(Session, ch)
    /\ keys' = run_reads(Session, ch, ch2)
    /\ nkeys' = nkeys + 1
    /\ UNCHANGED <<raised, calls>>

\* keys pressed that no branch of the mode's handler names
NormalUnbound == {KEY_F1}
InsertUnbound == {KEY_F1}
\* printable keys typed in INSERT mode
TypedKeys == {Key_a, Key_q}
\* the codes a terminal sends for Backspace
BackspaceKeys == {KEY_BACKSPACE, DEL}
\* second keys of a 'd' gesture other than 'd'
SecondKeys == {Key_q, Key_i, Key_o, Key_O, Key_j, Key_k, Key_gt, Key_lt}

NormalInsert == mode = NORMAL /\ Step(Key_i, Key_i)
NormalOpenBelow == mode = NORMAL /\ Step(Key_o, Key_o)
NormalOpenAbove == mode = NORMAL /\ Step(Key_O, Key_O)
NormalDown == mode = NORMAL /\ \E ch \in {Key_j, KEY_DOWN} : Step(ch, ch)
NormalUp == mode = NORMAL /\ \E ch \in {Key_k, KEY_UP} : Step(ch, ch)
NormalDeleteLine == mode = NORMAL /\ Step(Key_d, Key_d)
NormalDropSecondKey == mode = NORMAL /\ \E ch2 \in SecondKeys : Step(Key_d, ch2)
NormalIndent == mode = NORMAL /\ Step(Key_gt, Key_gt)
NormalOutdent == mode = NORMAL /\ Step(Key_lt, Key_lt)
NormalSave == mode = NORMAL /\ Step(Key_s, Key_s)
NormalQuit == mode = NORMAL /\ Step(Key_q, Key_q)
NormalOther == mode = NORMAL /\ \E ch \in NormalUnbound : Step(ch, ch)

InsertOnEmpty ==
    mode = INSERT /\ Len(items) = 0 /\ \E ch \in {ESC, Key_a} : Step(ch, ch)
InsertKey(ch) == mode = INSERT /\ Len(items) > 0 /\ Step(ch, ch)
InsertEscape == mode = INSERT /\ InsertKey(ESC)
InsertEnter == mode = INSERT /\ InsertKey(ENTER)
InsertTab == mode = INSERT /\ InsertKey(TAB)
InsertShiftTab == mode = INSERT /\ InsertKey(KEY_BTAB)
InsertBackspace == mode = INSERT /\ \E ch \in BackspaceKeys : InsertKey(ch)
InsertDelete == mode = INSERT /\ InsertKey(KEY_DC)
InsertLeft == mode = INSERT /\ InsertKey(KEY_LEFT)
InsertRight == mode = INSERT /\ InsertKey(KEY_RIGHT)
InsertUp == mode = INSERT /\ InsertKey(KEY_UP)
InsertDown == mode = INSERT /\ InsertKey(KEY_DOWN)
InsertPrintable == mode = INSERT /\ \E ch \in TypedKeys : InsertKey(ch)
InsertOther == mode = INSERT /\ \E ch \in InsertUnbound : InsertKey(ch)

Next ==
    \/ NormalInsert
    \/ NormalOpenBelow
    \/ NormalOpenAbove
    \/ NormalDown
    \/ NormalUp
    \/ NormalDeleteLine
    \/ NormalDropSecondKey
    \/ NormalIndent
    \/ NormalOutdent
    \/ NormalSave
    \/ NormalQuit
    \/ NormalOther
    \/ InsertOnEmpty
    \/ InsertEscape
    \/ InsertEnter
    \/ InsertTab
    \/ InsertShiftTab
    \/ InsertBackspace
    \/ InsertDelete
    \/ InsertLeft
    \/ InsertRight
    \/ InsertUp
    \/ InsertDown
    \/ InsertPrintable
    \/ InsertOther

Spec == Init /\ [][Next]_vars

\* ------------------------------------------- renumber_items on its own
\* A manager whose items carry any levels in 0..MaxLevel and no number yet;
\* the one operation is renumber_items.
LevelDocs ==
    UNION {[1..n -> {ListItem(<<>>, l) : l \in 0..MaxLevel}] : n \in 0..MaxSeqLen}

InitRenumber ==
    /\ items \in LevelDocs
    /\ current_position = 0
    /\ mode = NORMAL
    /\ current_line = 0
    /\ cursor_x = 0
    /\ enter_count = 0
    /\ file = NoFile
    /\ running = FALSE
    /\ keys = <<>>
    /\ nkeys = 0
    /\ raised = FALSE
    /\ calls = <<>>

RenumberItems ==
    /\ ~running
    /\ items' = renumber_items(items)
    /\ UNCHANGED <<current_position, mode, current_line, cursor_x, enter_count,
                   file, running, keys, nkeys, raised, calls>>

NextRenumber == RenumberItems

SpecRenumber == InitRenumber /\ [][NextRenumber]_vars

\* ------------------------------------------- the ListManager on its own
\* A new manager and the calls a caller can make on it, in any order and
\* with any index; the list is kept to MaxItems items.
Manager == [items |-> items, current_position |-> current_position]

AddLevels == {0, 1, MaxLevel}

InitManager ==
    /\ items = NewManager.items
    /\ current_position = NewManager.current_position
    /\ mode = NORMAL
    /\ current_line = 0
    /\ cursor_x = 0
    /\ enter_count = 0
    /\ file = NoFile
    /\ running = FALSE
    /\ keys = <<>>
    /\ nkeys = 0
    /\ raised = FALSE
    /\ calls = <<>>

SetManager(lm) ==
    /\ items' = lm.items
    /\ current_position' = lm.current_position
    /\ UNCHANGED <<mode, current_line, cursor_x, enter_count, file, running,
                   keys, nkeys, raised, calls>>

AddItem ==
    /\ Len(items) < MaxItems
    /\ \E content \in StartContents, level \in AddLevels :
           SetManager(add_item(Manager, content, level))

AddItemDefault ==
    /\ Len(items) < MaxItems
    /\ \E content \in StartContents : SetManager(add_item_default(Manager, content))

DeleteItem == \E index \in (-1)..Len(items) : SetManager(delete_item(Manager, index))

IndentItem == \E index \in (-1)..Len(items) : SetManager(indent_item(Manager, index))

OutdentItem == \E index \in (-1)..Len(items) : SetManager(outdent_item(Manager, index))

LoadFromFile == \E f \in StartFiles : SetManager(load_from_file(f).lm)

NextManager ==
    \/ AddItem
    \/ AddItemDefault
    \/ DeleteItem
    \/ IndentItem
    \/ OutdentItem
    \/ LoadFromFile

SpecManager == InitManager /\ [][NextManager]_vars

\* --------------------------------------- save_to_file and load_from_file
\* Either a renumbered document that has not been saved yet, or an empty
\* manager next to a file written by hand; the operations are save_to_file
\* and load_from_file.  An exception ends the exploration of that run.
PersistContents ==
    {<<>>, <<Key_a>>, <<Key_a, SP, Key_a>>, <<SP, Key_a>>, <<Key_a, SP>>,
     <<Key_a, SP, SP, Key_a>>}

PersistDocs ==
    UNION {[1..n -> {ListItem(c, l) : c \in PersistContents, l \in AddLevels}] :
           n \in 0..MaxFileItems}

\* leading spaces of a hand-written line: around one indent step, around
\* the deepest level and around the first level without a counter
LeadingSpaces ==
    {0, IndentWidth - 1, IndentWidth, IndentWidth * MaxLevel,
     IndentWidth * NumCounters - 1, IndentWidth * NumCounters}

RawLine(n) == Spaces(n) \o <<Digit0 + 1, SP, Key_a, NL>>

RawFiles ==
    {[exists |-> TRUE, text |-> Join([i \in 1..Len(pads) |-> RawLine(pads[i])], <<>>)] :
        pads \in UNION {[1..n -> LeadingSpaces] : n \in 1..MaxFileItems}}

InitPersist ==
    /\ \/ \E d \in PersistDocs :
              /\ items = renumber_items(d)
              /\ current_position = Len(d)
              /\ file = NoFile
       \/ /\ items = NewManager.items
          /\ current_position = NewManager.current_position
          /\ file \in RawFiles
    /\ mode = NORMAL
    /\ current_line = 0
    /\ cursor_x = 0
    /\ enter_count = 0
    /\ running = FALSE
    /\ keys = <<>>
    /\ nkeys = 0
    /\ raised = FALSE
    /\ calls = <<>>

PersistSave ==
    /\ ~raised
    /\ file' = save_to_file(items)
    /\ UNCHANGED <<items, current_position, mode, current_line, cursor_x,
                   enter_count, running, keys, nkeys, raised, calls>>

PersistLoad ==
    /\ ~raised
    /\ \E r \in {load_from_file(file)} :
           /\ items' = r.lm.items
           /\ current_position' = r.lm.current_position
           /\ raised' = r.raised
    /\ UNCHANGED <<mode, current_line, cursor_x, enter_count, file, running,
                   keys, nkeys, calls>>

NextPersist == PersistSave \/ PersistLoad

SpecPersist == InitPersist /\ [][NextPersist]_vars

\* ------------------------------------------------- add_item, and only it
\* A new manager on which nothing but add_item is called, at most MaxAdds
\* times; calls records the content and the level of each call.
AddContents == {<<Key_a>>, <<Key_q>>}

InitAdd == InitManager

Added(lm, content, level) ==
    /\ Len(calls) < MaxAdds
    /\ items' = lm.items
    /\ current_position' = lm.current_position
    /\ calls' = Append(calls, [content |-> content, level |-> level])
    /\ UNCHANGED <<mode, current_line, cursor_x, enter_count, file, running,
                   keys, nkeys, raised>>

AddWithLevel ==
    \E content \in AddContents, level \in AddLevels :
        Added(add_item(Manager, content, level), content, level)

AddWithoutLevel ==
    \E content \in AddContents :
        Added(add_item_default(Manager, content), content, get_recommended_level(Manager))

NextAdd == AddWithLevel \/ AddWithoutLevel

SpecAdd == InitAdd /\ [][NextAdd]_vars

\* ----------------------------------------------------------------- claims
\* one iteration of the main loop has just been taken
KeyHandled == nkeys' = nkeys + 1

\* the content and the level of every item, without the derived numbers
Body(its) == [i \in 1..Len(its) |-> [content |-> its[i].content, level |-> its[i].level]]

\* C1: in INSERT mode with a non-empty list, the cursor is inside the current
\* item's content: 0 <= cursor_x <= len(content).
C1_CursorInContent ==
    (mode = INSERT /\ Len(items) > 0)
        => (0 <= cursor_x /\ cursor_x <= Len(items[current_line + 1].content))

\* C2: in INSERT mode every key other than Enter leaves enter_count at 0.
C2_NonEnterResetsCount ==
    [][(mode = INSERT /\ KeyHandled /\ keys' # <<ENTER>>) => enter_count' = 0]_vars

\* The second of two consecutive Enter presses in INSERT mode.
SecondEnter ==
    /\ mode = INSERT
    /\ Len(items) > 0
    /\ keys = <<ENTER>>
    /\ enter_count = 1
    /\ KeyHandled
    /\ keys' = <<ENTER>>

\* C3: the second consecutive Enter inserts exactly one item right after the
\* current one, at the current item's level, keeps the other items in order,
\* moves current_line to the new item and resets enter_count.
C3_DoubleEnterInserts ==
    [][SecondEnter =>
        /\ Len(items') = Len(items) + 1
        /\ items'[current_line + 2].level = items[current_line + 1].level
        /\ Body(ListDelete(items', current_line + 1)) = Body(items)
        /\ current_line' = current_line + 1
        /\ enter_count' = 0]_vars

\* a double Enter on the first of two items has put the new item between them
C3_Witness ==
    /\ mode = INSERT
    /\ keys = <<ENTER>>
    /\ enter_count = 0
    /\ Len(items) = 3
    /\ current_line = 1
    /\ items[1].content = <<NL, Key_a>>
    /\ items[1].level = 1
    /\ items[2] = [content |-> <<>>, level |-> 1, number |-> <<Digit0, DOT, Digit0 + 2>>]
    /\ items[3].content = <<Key_a>>

\* C4: after the double Enter has created the new item, cursor_x is 0.
C4_DoubleEnterCursorZero == [][SecondEnter => cursor_x' = 0]_vars

\* ---- reading a number back: its dot-separated components, in decimal
RECURSIVE SplitOn(_, _)
SplitOn(s, sep) ==
    IF \E k \in 1..Len(s) : s[k] = sep
    THEN LET k == CHOOSE k \in 1..Len(s) : s[k] = sep /\ \A j \in 1..(k - 1) : s[j] # sep
         IN  <<SubSeq(s, 1, k - 1)>> \o SplitOn(SubSeq(s, k + 1, Len(s)), sep)
    ELSE <<s>>

RECURSIVE ParseNat(_)
ParseNat(digits) ==
    IF Len(digits) = 0 THEN 0
    ELSE 10 * ParseNat(SubSeq(digits, 1, Len(digits) - 1)) + (digits[Len(digits)] - Digit0)

IsDigits(s) == Len(s) > 0 /\ \A k \in 1..Len(s) : s[k] \in Digit0..(Digit0 + 9)

\* the items at item i's level from the one after the last item before i with
\* a lower level (or from the first item) up to i itself
SiblingCount(its, i) ==
    LET lower == {j \in 1..(i - 1) : its[j].level < its[i].level}
        first == IF lower = {} THEN 1
                 ELSE 1 + CHOOSE j \in lower : \A k \in lower : k <= j
    IN  Cardinality({j \in first..i : its[j].level = its[i].level})

Numbered(its) == \A i \in 1..Len(its) : its[i].number # <<>>

\* C5: after renumber_items, item i's number has level_i + 1 dot-separated
\* components and its last component is the count of items at level_i since
\* the last preceding item of a lower level, item i included.
C5_NumberShape ==
    Numbered(items) =>
        \A i \in 1..Len(items) :
            \E comps \in {SplitOn(items[i].number, DOT)} :
                /\ Len(comps) = items[i].level + 1
                /\ \A k \in 1..Len(comps) : IsDigits(comps[k])
                /\ ParseNat(comps[Len(comps)]) = SiblingCount(items, i)

\* levels 0,1,1,0 are numbered 1, 1.1, 1.2, 2
C5_Witness ==
    /\ ~running
    /\ Len(items) = 4
    /\ items[1] = [content |-> <<>>, level |-> 0, number |-> <<Digit0 + 1>>]
    /\ items[2] = [content |-> <<>>, level |-> 1,
                   number |-> <<Digit0 + 1, DOT, Digit0 + 1>>]
    /\ items[3] = [content |-> <<>>, level |-> 1,
                   number |-> <<Digit0 + 1, DOT, Digit0 + 2>>]
    /\ items[4] = [content |-> <<>>, level |-> 0, number |-> <<Digit0 + 2>>]

\* every item carries the number renumber_items gives it
Fresh(its) == its = renumber_items(its)

\* C6: in every state between keystrokes, and after any ListManager mutation
\* applied there (add_item, delete_item, indent_item, outdent_item), every
\* item's number is the one renumber_items computes from the levels.
C6_NumbersFresh ==
    /\ Fresh(items)
    /\ \E lm \in {[items |-> items, current_position |-> current_position]} :
        /\ \A l \in 0..MaxLevel : Fresh(add_item(lm, <<>>, l).items)
        /\ Fresh(add_item_default(lm, <<>>).items)
        /\ \A index \in 0..(Len(items) - 1) :
            /\ Fresh(delete_item(lm, index).items)
            /\ Fresh(indent_item(lm, index).items)
            /\ Fresh(outdent_item(lm, index).items)

\* dd on the middle of three items has renumbered the item that was "3"
C6_Witness ==
    /\ keys = <<Key_d, Key_d>>
    /\ mode = NORMAL
    /\ nkeys = 4
    /\ ~file.exists
    /\ Len(items) = 2
    /\ current_line = 1
    /\ items[1].number = <<Digit0 + 1>>
    /\ items[2].number = <<Digit0 + 2>>

\* Backspace at offset 0 of a top-level item that is not the first one
MergeBackspace ==
    /\ mode = INSERT
    /\ Len(items) > 0
    /\ cursor_x = 0
    /\ current_line > 0
    /\ items[current_line + 1].level = 0
    /\ KeyHandled
    /\ keys' \in {<<KEY_BACKSPACE>>, <<DEL>>, <<BS>>}

\* C7: that Backspace appends the current content to the previous item's,
\* removes the current item, moves current_line up by one and puts the cursor
\* at the previous item's original length.
C7_BackspaceMerges ==
    [][MergeBackspace =>
        /\ Len(items') = Len(items) - 1
        /\ items'[current_line].content =
               items[current_line].content \o items[current_line + 1].content
        /\ Body(items') =
               Body(ListDelete([items EXCEPT ![current_line].content =
                                    @ \o items[current_line + 1].content],
                               current_line))
        /\ current_line' = current_line - 1
        /\ cursor_x' = Len(items[current_line].content)]_vars

\* "a" and "qa" have been merged into the one item "aqa", cursor at the seam
C7_Witness ==
    /\ mode = INSERT
    /\ keys \in {<<KEY_BACKSPACE>>, <<DEL>>}
    /\ Len(items) = 1
    /\ items[1].content = <<Key_a, Key_q, Key_a>>
    /\ current_line = 0
    /\ cursor_x = 1

\* Backspace at offset 0 of an indented item
OutdentBackspace ==
    /\ mode = INSERT
    /\ Len(items) > 0
    /\ cursor_x = 0
    /\ items[current_line + 1].level > 0
    /\ KeyHandled
    /\ keys' \in {<<KEY_BACKSPACE>>, <<DEL>>, <<BS>>}

\* C8: that Backspace only lowers the current item's level by one: the item
\* count, every content, every other level, current_line and cursor_x stay.
C8_BackspaceOutdents ==
    [][OutdentBackspace =>
        /\ Len(items') = Len(items)
        /\ Body(items') = Body([items EXCEPT ![current_line + 1].level = @ - 1])
        /\ current_line' = current_line
        /\ cursor_x' = cursor_x]_vars

\* the indented second item of a two-item file was outdented, not merged
C8_Witness ==
    /\ file = save_to_file(renumber_items(<<ListItem(<<Key_a>>, 0), ListItem(<<Key_a>>, 1)>>))
    /\ mode = INSERT
    /\ nkeys = 2
    /\ keys \in {<<KEY_BACKSPACE>>, <<DEL>>}
    /\ Body(items) = Body(<<ListItem(<<Key_a>>, 0), ListItem(<<Key_a>>, 0)>>)
    /\ current_line = 1
    /\ cursor_x = 0

\* the dd gesture in NORMAL mode
DeleteLine == mode = NORMAL /\ KeyHandled /\ keys' = <<Key_d, Key_d>>

\* C9: a list that holds an item never becomes empty; dd leaves a one-item
\* list as it is and removes exactly the current item of a longer one.
C9_NeverEmptied ==
    [][/\ Len(items) >= 1 => Len(items') >= 1
       /\ (DeleteLine /\ Len(items) = 1) => items' = items
       /\ (DeleteLine /\ Len(items) > 1) =>
              Body(items') = Body(ListDelete(items, current_line))]_vars

\* dd on the only item of a one-item file: the item is still there
C9_Witness ==
    /\ file = save_to_file(renumber_items(<<ListItem(<<Key_a>>, 1)>>))
    /\ mode = NORMAL
    /\ nkeys = 2
    /\ keys = <<Key_d, Key_d>>
    /\ Body(items) = Body(<<ListItem(<<Key_a>>, 1)>>)

\* C10: with a non-empty list, 0 <= current_line < len(items).
C10_CurrentLineValid ==
    Len(items) > 0 => (0 <= current_line /\ current_line < Len(items))

\* dd on the last of two items: current_line came back from 1 to 0
C10_Witness ==
    /\ file = save_to_file(renumber_items(<<ListItem(<<Key_a>>, 0), ListItem(<<Key_a>>, 1)>>))
    /\ keys = <<Key_d, Key_d>>
    /\ nkeys = 3
    /\ Body(items) = Body(<<ListItem(<<Key_a>>, 0)>>)
    /\ current_line = 0

\* C11: after any sequence of ListManager mutations from a new manager,
\* 0 <= current_position <= len(items).
C11_PositionInRange == 0 <= current_position /\ current_position <= Len(items)

\* every level is one of 0..10
LevelsInRange(its) == \A i \in 1..Len(its) : its[i].level \in 0..MaxLevel

\* an editor whose manager is the current one, at the given line
EditorOn(line, m, count) ==
    [items |-> items, current_position |-> current_position, mode |-> m,
     current_line |-> line, cursor_x |-> 0, enter_count |-> count, file |-> NoFile]

\* the keys whose handlers set or change a level
LevelKeys == {Key_gt, Key_lt, TAB, KEY_BTAB, KEY_BACKSPACE, Key_o, Key_O, ENTER}

\* C12: whatever calls were made, every level is in 0..10, one more
\* indent_item or outdent_item on any item keeps it so, and so does any
\* keystroke that changes or sets a level, on any line, in either mode.
C12_LevelsClamped ==
    /\ LevelsInRange(items)
    /\ \A index \in 0..(Len(items) - 1) :
        /\ LevelsInRange(indent_item(Manager, index).items)
        /\ LevelsInRange(outdent_item(Manager, index).items)
        /\ \A m \in {NORMAL, INSERT}, count \in {0, 1}, ch \in LevelKeys :
               LevelsInRange(run_iteration(EditorOn(index, m, count), ch, ch).items)

\* an item added at level 10 was outdented to 9 and one added at level 1
\* was indented to 2
C12_Witness ==
    /\ ~running
    /\ Len(items) = 2
    /\ items[1].level = MaxLevel - 1
    /\ items[2].level = 2

\* C13: loading the file that save_to_file has just written from the items
\* reproduces every (level, content) pair, and the loaded numbers are the
\* ones renumber_items computes.
C13_RoundTrip ==
    [][(file = save_to_file(items) /\ file' = file)
          => (Body(items') = Body(items) /\ Fresh(items'))]_vars

\* C19: load_from_file does not raise and every item it produces has a
\* level in 0..10.
C19_LoadSafe == ~raised /\ LevelsInRange(items)

\* C14: after N add_item calls on a new manager and nothing else, items
\* holds the N items in call order and current_position is N.
C14_AddsInCallOrder ==
    /\ Len(items) = Len(calls)
    /\ Body(items) = calls
    /\ current_position = Len(calls)

\* "a", "q", "a" were added in this order, the second one without a level
C14_Witness ==
    /\ Len(calls) = 3
    /\ calls[1] = [content |-> <<Key_a>>, level |-> 1]
    /\ calls[2] = [content |-> <<Key_q>>, level |-> 1]
    /\ calls[3] = [content |-> <<Key_a>>, level |-> 0]
    /\ items[1].content = <<Key_a>>
    /\ items[2].content = <<Key_q>>
    /\ items[3].content = <<Key_a>>
    /\ current_position = 3

\* a single Enter: Enter in INSERT mode with enter_count = 0
SingleEnter ==
    /\ mode = INSERT
    /\ Len(items) > 0
    /\ enter_count = 0
    /\ KeyHandled
    /\ keys' = <<ENTER>>

\* C15: a single Enter puts one line break into the current item's content
\* at offset cursor_x, advances cursor_x by 1, sets enter_count to 1 and
\* leaves the item count, the levels, the other contents and current_line.
C15_SingleEnterBreaksLine ==
    [][SingleEnter =>
        /\ Len(items') = Len(items)
        /\ \A i \in 1..Len(items) :
            /\ items'[i].level = items[i].level
            /\ i # current_line + 1 => items'[i].content = items[i].content
        /\ \E old \in {items[current_line + 1].content},
              new \in {items'[current_line + 1].content} :
            /\ Len(new) = Len(old) + 1
            /\ cursor_x + 1 \in 1..Len(new)
            /\ new[cursor_x + 1] = NL
            /\ ListDelete(new, cursor_x) = old
        /\ cursor_x' = cursor_x + 1
        /\ enter_count' = 1
        /\ current_line' = current_line]_vars

\* C16: before the first key of a session that found no file, the mode is
\* INSERT, the list is the one empty level-0 item numbered "1", and
\* current_line and cursor_x are 0.
C16_StartsWithOneItem ==
    (nkeys = 0 /\ ~file.exists) =>
        /\ mode = INSERT
        /\ items = <<[content |-> <<>>, level |-> 0, number |-> <<Digit0 + 1>>]>>
        /\ current_line = 0
        /\ cursor_x = 0

\* 'd' followed by a key other than 'd', in NORMAL mode
DropSecondKey ==
    /\ mode = NORMAL
    /\ KeyHandled
    /\ Len(keys') = 2
    /\ keys'[1] = Key_d
    /\ keys'[2] # Key_d

\* C17: 'd' followed by another key changes nothing of the editor state
\* and the session keeps running, whatever the second key is.
C17_SecondKeyDropped ==
    [][DropSecondKey =>
        /\ items' = items
        /\ current_position' = current_position
        /\ mode' = mode
        /\ current_line' = current_line
        /\ cursor_x' = cursor_x
        /\ enter_count' = enter_count
        /\ file' = file
        /\ running']_vars

\* ESC, 'j', then 'd' 'q' on a loaded file: still running, still in NORMAL
\* mode on the second line
C17_Witness ==
    /\ keys = <<Key_d, Key_q>>
    /\ running
    /\ mode = NORMAL
    /\ nkeys = 3
    /\ file.exists
    /\ current_line = 1
    /\ Len(items) = 2

\* C18: the loop is left only on 'q' read as a command in NORMAL mode; no
\* key ends it in INSERT mode, where 'q' is inserted as a character; and
\* INSERT mode is left for NORMAL mode only on ESC.
C18_QuitOnlyInNormal ==
    [][/\ (running /\ ~running') => (mode = NORMAL /\ keys' = <<Key_q>>)
       /\ (mode = INSERT /\ KeyHandled) => running'
       /\ (mode = INSERT /\ Len(items) > 0 /\ KeyHandled /\ keys' = <<Key_q>>) =>
              /\ mode' = INSERT
              /\ \E k \in 1..Len(items'[current_line + 1].content) :
                     /\ items'[current_line + 1].content[k] = Key_q
                     /\ ListDelete(items'[current_line + 1].content, k - 1) =
                            items[current_line + 1].content
       /\ (mode = INSERT /\ mode' = NORMAL) => keys' = <<ESC>>]_vars

\* 'q' typed into the first item, then ESC, then 'q': the loop has ended
C18_Witness ==
    /\ ~running
    /\ ~file.exists
    /\ nkeys = 3
    /\ keys = <<Key_q>>
    /\ mode = NORMAL
    /\ items[1].content = <<Key_q>>

\* no two items carry the same number
Distinct(its) ==
    \A i \in 1..Len(its) : \A j \in 1..Len(its) : i # j => its[i].number # its[j].number

\* C20: after renumber_items, whatever the levels are, the numbers of the
\* items are pairwise distinct.
C20_NumbersDistinct == Numbered(items) => Distinct(items)

\* levels 0,1,0,1 are numbered 1, 1.1, 2, 2.1
C20_Witness ==
    /\ ~running
    /\ Len(items) = 4
    /\ items[1].number = <<Digit0 + 1>>
    /\ items[2].number = <<Digit0 + 1, DOT, Digit0 + 1>>
    /\ items[3].number = <<Digit0 + 2>>
    /\ items[4].number = <<Digit0 + 2, DOT, Digit0 + 1>>

\* C21: in every state the editor reaches, every dot-separated component
\* of every item's number is at least 1.
C21_NoZeroComponent ==
    \A i \in 1..Len(items) :
        \E comps \in {SplitOn(items[i].number, DOT)} :
            \A k \in 1..Len(comps) : IsDigits(comps[k]) /\ ParseNat(comps[k]) >= 1

====
